---------------------------- MODULE Spec2Model ----------------------------
(***************************************************************************)
(* Model of the tiled streaming statistics engine of eo-tools:             *)
(*   generate_tiles / TiledOutput    (src/src/tiling.py)                   *)
(*   bulk_stats                      (src/eotools/bulk_stats.py)           *)
(*   StackedDataset.z_axis_stats     (src/eotools/drivers/stacked_dataset.py) *)
(*                                                                         *)
(* Floating point values are modelled as exact reals with the IEEE special *)
(* values NaN and +/-inf; rounding is not modelled.  A value is a triple   *)
(* <<p, q, k>> standing for sign(p) * (|p|/q)^(1/k):                       *)
(*   <<p, q, 1>>, q > 0   the rational p/q (in lowest terms)               *)
(*   <<p, q, k>>, k > 1   a k-th root (sqrt for stddev, n-th root for the  *)
(*                        geometric mean)                                  *)
(*   <<0, 0, 1>>          NaN                                              *)
(*   <<1, 0, 1>>, <<-1, 0, 1>>   +inf, -inf                                *)
(***************************************************************************)
EXTENDS Integers, Sequences, FiniteSets, TLC

VARIABLES
    \* one call of bulk_stats
    array,      \* the caller's array, a flat sequence in C order
    orig,       \* what the caller's array held before the call
    shape,      \* array.shape
    no_data,    \* <<>> for None, <<v>> for the number v
    double,     \* the double argument
    as_bip,     \* the as_bip argument
    dtype,      \* the dtype of the caller's array
    pc,         \* "ready", "returned" or "raised"
    stats,      \* the returned array: stats[plane + 1][pixel offset + 1]
    err         \* the exception raised, "" for none

statsVars == <<array, orig, shape, no_data, double, as_bip, dtype, pc, stats, err>>

VARIABLES
    \* one call of generate_tiles and the iteration of its result
    samples,    \* the samples argument
    lines,      \* the lines argument
    xtile,      \* the xtile argument
    ytile,      \* the ytile argument
    generator,  \* the generator argument
    tpc,        \* "ready", "iterating" (a generator object is live), "done"
                \* or "raised"
    tiles,      \* the tiles returned (list) or yielded so far (generator)
    ypos,       \* generator: 1-based position of the outer loop in ystart
    xpos        \* generator: 1-based position of the inner loop in xstart

tileVars == <<samples, lines, xtile, ytile, generator, tpc, tiles, ypos, xpos>>

VARIABLES
    \* one TiledOutput object, the file behind it, and the caller that
    \* writes a source array through it tile by tile and reads it back
    src,        \* the caller's source array, [ndim, data]
    wtiles,     \* the caller's tiles, generate_tiles(..., generator=False)
    wpc,        \* "new", "open" (constructed) or "failed" (__init__ raised)
    w_bands,    \* self.bands
    out_bands,  \* self.out_bands: [isNone, keys]
    closed,     \* self.closed
    raster,     \* the pixels of the output file, one plane per band
    wcall,      \* the name of the last method called
    werr,       \* the exception the last call raised, "" if none
    written,    \* the tiles whose sub-array a write_tile call has written
    img         \* the array read back from the file, NoArray before

writerVars == <<src, wtiles, wpc, w_bands, out_bands, closed, raster, wcall,
                werr, written, img>>

VARIABLES
    \* one StackedDataset object and one call of its z_axis_stats method
    z_samples,  \* self.samples
    z_lines,    \* self.lines
    z_bands,    \* self.bands
    z_no_data,  \* self.no_data
    z_tiles,    \* self.tiles
    n_tiles,    \* self.n_tiles
    zpc,        \* "ready", "returned" or "raised"
    zerr,       \* the exception z_axis_stats raised, "" if none
    band_desc   \* the descriptions of the output file's bands, <<>> while
                \* there is no output file

zVars == <<z_samples, z_lines, z_bands, z_no_data, z_tiles, n_tiles, zpc, zerr,
           band_desc>>

VARIABLES
    \* one StackedDataset object and one call of its init_yearly_iterator
    y_bands,          \* self.bands
    start_year,       \* per band, the year of its start_datetime metadata
                      \* item, NoDate for a band without the item
    yearly_iterator,  \* self.yearly_iterator: a dictionary from keys to
                      \* lists of band indices
    ypc,              \* "ready", "returned", "read" or "raised"
    yerr              \* the exception init_yearly_iterator raised

yearVars == <<y_bands, start_year, yearly_iterator, ypc, yerr>>

vars == <<statsVars, tileVars, writerVars, zVars, yearVars>>

\* ------------------------------------------------------------------------
\* Exact arithmetic with IEEE special values
\* ------------------------------------------------------------------------

NaN == <<0, 0, 1>>
PosInf == <<1, 0, 1>>
NegInf == <<-1, 0, 1>>

Abs(x) == IF x < 0 THEN -x ELSE x

Sgn(x) == IF x < 0 THEN -1 ELSE IF x > 0 THEN 1 ELSE 0

Min2(a, b) == IF a < b THEN a ELSE b

RECURSIVE Gcd(_, _)
Gcd(a, b) == IF b = 0 THEN a ELSE Gcd(b, a % b)

RECURSIVE IPow(_, _)
IPow(b, e) == IF e = 0 THEN 1 ELSE b * IPow(b, e - 1)

\* floor of the k-th root of the natural number n
RECURSIVE IRoot(_, _)
IRoot(n, k) ==
    IF n < 2 THEN n
    ELSE LET r == 2 * IRoot(n \div IPow(2, k), k)
         IN  IF IPow(r + 1, k) <= n THEN r + 1 ELSE r

IsPow(n, k) == IPow(IRoot(n, k), k) = n

\* the rational p/q (q # 0) in lowest terms with a positive denominator
Rat(p, q) ==
    LET g == Gcd(Abs(p), Abs(q))
        s == IF q < 0 THEN -1 ELSE 1
    IN  <<s * (p \div g), s * (q \div g), 1>>

Num(n) == <<n, 1, 1>>

IsNaN(x) == x[2] = 0 /\ x[1] = 0

IsInf(x) == x[2] = 0 /\ x[1] # 0

\* numpy.isfinite
IsFinite(x) == x[2] # 0

IsRat(x) == x[2] # 0 /\ x[3] = 1

\* the sign of a value (0 for NaN)
Sign(x) == Sgn(x[1])

\* x + y on rationals, NaN and infinities (inf + -inf = NaN)
Add(x, y) ==
    IF IsNaN(x) \/ IsNaN(y) THEN NaN
    ELSE IF IsInf(x) /\ IsInf(y) THEN (IF x = y THEN x ELSE NaN)
    ELSE IF IsInf(x) THEN x
    ELSE IF IsInf(y) THEN y
    ELSE LET g == Gcd(x[2], y[2])
         IN  Rat(x[1] * (y[2] \div g) + y[1] * (x[2] \div g),
                 (x[2] \div g) * y[2])

Neg(x) == <<-x[1], x[2], x[3]>>

Sub(x, y) == Add(x, Neg(y))

\* x * y on rationals, NaN and infinities (0 * inf = NaN)
Mul(x, y) ==
    IF IsNaN(x) \/ IsNaN(y) THEN NaN
    ELSE IF IsInf(x) \/ IsInf(y)
         THEN (IF Sign(x) * Sign(y) = 0 THEN NaN
               ELSE IF Sign(x) * Sign(y) > 0 THEN PosInf ELSE NegInf)
    ELSE LET g1 == Gcd(Abs(x[1]), y[2])
             g2 == Gcd(Abs(y[1]), x[2])
         IN  Rat((x[1] \div g1) * (y[1] \div g2),
                 (x[2] \div g2) * (y[2] \div g1))

\* 1 / y for a rational, NaN or infinity; 1/0 = +inf (the sign of a zero
\* is not kept: -0.0 is modelled as 0)
Inv(y) ==
    IF IsNaN(y) THEN NaN
    ELSE IF IsInf(y) THEN Num(0)
    ELSE IF y[1] = 0 THEN PosInf
    ELSE Rat(y[2], y[1])

\* IEEE x / y: 0/0 = NaN, inf/inf = NaN, x/0 = +/-inf
Div(x, y) ==
    IF IsNaN(x) \/ IsNaN(y) THEN NaN
    ELSE IF IsFinite(y) /\ y[1] = 0
         THEN (IF IsFinite(x) /\ x[1] = 0 THEN NaN
               ELSE IF Sign(x) > 0 THEN PosInf ELSE NegInf)
    ELSE Mul(x, Inv(y))

RECURSIVE RatPow(_, _)
RatPow(x, e) == IF e = 0 THEN Num(1) ELSE Mul(x, RatPow(x, e - 1))

\* x < y on rationals
RatLess(x, y) == x[1] * y[2] < y[1] * x[2]

\* lowest form of sign(p) * (|p|/q)^(1/k), p/q in lowest terms, q > 0:
\* the root is taken exactly whenever it is rational
RECURSIVE Canon(_, _, _)
Canon(p, q, k) ==
    IF p = 0 THEN Num(0)
    ELSE IF k = 1 THEN <<p, q, 1>>
    ELSE LET ds == {d \in 2..k : k % d = 0 /\ IsPow(Abs(p), d) /\ IsPow(q, d)}
         IN  IF ds = {} THEN <<p, q, k>>
             ELSE LET d == CHOOSE e \in ds : \A f \in ds : f <= e
                  IN  Canon(Sgn(p) * IRoot(Abs(p), d), IRoot(q, d), k \div d)

\* the k-th root (k >= 1) of a rational x >= 0; NaN for NaN and negatives
Root(x, k) ==
    IF IsNaN(x) THEN NaN
    ELSE IF IsInf(x) THEN (IF Sign(x) > 0 THEN PosInf ELSE NaN)
    ELSE IF x[1] < 0 THEN NaN
    ELSE Canon(x[1], x[2], k)

\* sqrt(x)
Sqrt(x) == Root(x, 2)


\* ------------------------------------------------------------------------
\* numpy helpers used by bulk_stats
\* ------------------------------------------------------------------------

\* the sequence f as an explicit tuple (its elements are evaluated once)
Eval(f) == f \o <<>>

\* numpy.nansum over a sequence: NaN counts as zero, an all-NaN slice sums to 0
RECURSIVE NanSumFrom(_, _)
NanSumFrom(s, i) ==
    IF i > Len(s) THEN Num(0)
    ELSE IF IsNaN(s[i]) THEN NanSumFrom(s, i + 1)
    ELSE Add(s[i], NanSumFrom(s, i + 1))

NanSum(s) == NanSumFrom(s, 1)

\* numpy.sum(numpy.isfinite(s))
RECURSIVE CountFiniteFrom(_, _)
CountFiniteFrom(s, i) ==
    IF i > Len(s) THEN 0
    ELSE (IF IsFinite(s[i]) THEN 1 ELSE 0) + CountFiniteFrom(s, i + 1)

CountFinite(s) == CountFiniteFrom(s, 1)

\* numpy.prod over a sequence of rationals
RECURSIVE ProdFrom(_, _)
ProdFrom(s, i) == IF i > Len(s) THEN Num(1) ELSE Mul(s[i], ProdFrom(s, i + 1))

Prod(s) == ProdFrom(s, 1)

\* the order of numpy.sort: ascending, NaN after every number
SortsBefore(x, y) == ~IsNaN(x) /\ (IsNaN(y) \/ RatLess(x, y))

\* insert the pair e = <<value, original index>> into the sorted sequence s,
\* after every element that does not sort after it (a stable sort)
RECURSIVE InsertSorted(_, _)
InsertSorted(s, e) ==
    IF s = <<>> THEN <<e>>
    ELSE IF SortsBefore(e[1], s[1][1]) THEN <<e>> \o s
    ELSE <<s[1]>> \o InsertSorted(Tail(s), e)

RECURSIVE SortPairsFrom(_, _)
SortPairsFrom(col, n) ==
    IF n = 0 THEN <<>>
    ELSE InsertSorted(SortPairsFrom(col, n - 1), <<col[n], n - 1>>)

\* a column sorted along the z axis, each value with its position after the
\* sort in place of the position it had before
SortPairsByRank(col) ==
    Eval([i \in 1..Len(col) |-> <<SortPairsFrom(col, Len(col))[i][1], i - 1>>])

\* a column sorted along the z axis, each value with the 0-based position it
\* had before the sort: numpy.sort gives the values, numpy.argsort the
\* positions
SortPairs(col) == SortPairsFrom(col, Len(col))

\* numpy.nanmax / numpy.nanmin: NaN for an all-NaN slice (a warning, no error)
RECURSIVE NanMaxFrom(_, _)
NanMaxFrom(s, i) ==
    IF i > Len(s) THEN NaN
    ELSE LET m == NanMaxFrom(s, i + 1)
         IN  IF IsNaN(s[i]) THEN m
             ELSE IF IsNaN(m) \/ RatLess(m, s[i]) THEN s[i] ELSE m

NanMax(s) == NanMaxFrom(s, 1)

RECURSIVE NanMinFrom(_, _)
NanMinFrom(s, i) ==
    IF i > Len(s) THEN NaN
    ELSE LET m == NanMinFrom(s, i + 1)
         IN  IF IsNaN(s[i]) THEN m
             ELSE IF IsNaN(m) \/ RatLess(s[i], m) THEN s[i] ELSE m

NanMin(s) == NanMinFrom(s, 1)

\* Python's index into a flat array of `size` elements: a negative index
\* counts from the end; -1 stands for IndexError (index out of bounds)
PyIndex(i, size) ==
    IF i >= size \/ i < -size THEN -1
    ELSE IF i < 0 THEN i + size
    ELSE i

\* ------------------------------------------------------------------------
\* bulk_stats (src/eotools/bulk_stats.py)
\*
\* A block is a flat sequence in C order of its shape <<bands, rows, cols>>:
\* array[z, y, x] is arr[z * rows * cols + y * cols + x + 1].
\* ------------------------------------------------------------------------

\* number of bands/stats to be output
output_band_count == 14

\* `if no_data:` -- None and 0 are both false; no_data is <<>> for None
Truthy(nd) == nd # <<>> /\ nd[1] # 0

\* array = numpy.float64(array): a new array only when the dtype changes
Copied(dbl, dt) == dbl /\ dt # "float64"

\* wh = (array == no_data); array[wh] = nan
MaskNoData(arr, nd) ==
    IF Truthy(nd)
    THEN Eval([i \in 1..Len(arr) |-> IF arr[i] = Num(nd[1]) THEN NaN ELSE arr[i]])
    ELSE arr

\* wh = ~isfinite(array); array[wh] = 1
FillOnes(arr) ==
    Eval([i \in 1..Len(arr) |-> IF IsFinite(arr[i]) THEN arr[i] ELSE Num(1)])

\* array[:, y, x] for the pixel at offset a = y * cols + x
ZColumn(arr, bands, rc, a) == Eval([z \in 1..bands |-> arr[(z - 1) * rc + a + 1]])

\* the value r with the sign s
Signed(s, r) == <<s * r[1], r[2], r[3]>>

\* c * sqrt(v) for rationals c and v > 0
ScaledRoot(c, v) ==
    IF c[1] = 0 THEN Num(0)
    ELSE Signed(Sgn(c[1]), Sqrt(Mul(Mul(c, c), v)))

\* residuals = array - mean
Residuals(col, mean) == Eval([z \in 1..Len(col) |-> Sub(col[z], mean)])

\* the population variance, nansum(residuals**2) / fvld_obsv
VariancePopulation(res, n) ==
    Div(NanSum(Eval([z \in 1..Len(res) |-> RatPow(res[z], 2)])), Num(n))

\* nansum(residuals**2) / (fvld_obsv - 1)
Variance(res, n) ==
    Div(NanSum(Eval([z \in 1..Len(res) |-> RatPow(res[z], 2)])),
        Sub(Num(n), Num(1)))

\* nansum((residuals / stddev)**3) / fvld_obsv
Skewness(res, var, stddev, n) ==
    IF IsFinite(stddev) /\ ~IsRat(stddev)
    THEN ScaledRoot(Div(NanSum(Eval([z \in 1..Len(res) |->
                                   Div(RatPow(res[z], 3), RatPow(var, 2))])),
                        Num(n)),
                    var)
    ELSE Div(NanSum(Eval([z \in 1..Len(res) |->
                            RatPow(Div(res[z], stddev), 3)])),
             Num(n))

\* (nansum((residuals / stddev)**4) / fvld_obsv) - 3
Kurtosis(res, var, stddev, n) ==
    IF IsFinite(stddev) /\ ~IsRat(stddev)
    THEN Sub(Div(NanSum(Eval([z \in 1..Len(res) |->
                            Div(RatPow(res[z], 4), RatPow(var, 2))])),
                 Num(n)),
             Num(3))
    ELSE Sub(Div(NanSum(Eval([z \in 1..Len(res) |->
                            RatPow(Div(res[z], stddev), 4)])),
                 Num(n)),
             Num(3))

\* prod(array)**(1. / vld_obsv) on the array with 1 in place of the missing
\* values, and NaN where vld_obsv == 0
GeometricMean(col, n) ==
    IF n = 0 THEN NaN
    ELSE IF n = 1 THEN Prod(FillOnes(col))
    ELSE Root(Prod(FillOnes(col)), n)

\* the planes of one pixel derived from its residuals: variance, standard
\* deviation, skewness and kurtosis
central_moments(res, var, stddev, n) ==
    [var |-> var, stddev |-> stddev,
     skew |-> Skewness(res, var, stddev, n),
     kurt |-> Kurtosis(res, var, stddev, n)]

about_variance(res, var, n) == central_moments(res, var, Sqrt(var), n)

about_mean(res, n) == about_variance(res, Variance(res, n), n)

\* the planes of one pixel that are reduced along z without sorting, from
\* its valid count n, its sum and its mean
moments_of(col, n, fsum, mean, central) ==
    [sum |-> fsum, vld_obsv |-> n, mean |-> mean, var |-> central.var,
     stddev |-> central.stddev, skew |-> central.skew, kurt |-> central.kurt,
     max |-> NanMax(col), min |-> NanMin(col),
     gmean |-> GeometricMean(col, n)]

moments_about(col, n, fsum, mean) ==
    moments_of(col, n, fsum, mean, about_mean(Residuals(col, mean), n))

moments_from(col, n, fsum) == moments_about(col, n, fsum, Div(fsum, Num(n)))

Moments(col) == moments_from(col, CountFinite(col), NanSum(col))

\* the upper central rank, vld_obsv / 2 without the even-count correction
q2_idx_upper(n) == n \div 2

\* q2_idx = (vld_obsv / 2) + ((vld_obsv % 2) - 1), integer arithmetic
q2_idx(n) == (n \div 2) + ((n % 2) - 1)

\* the 1st quantile index taken as the length of the lower half
q1_idx_length(q2) == q2 + 1

\* the upper central rank of the sub-length q2_idx + 1
q1_idx_upper(q2) == (q2 + 1) \div 2

\* length = q2_idx + 1; q1_idx = (length / 2) + ((length % 2) - 1)
q1_idx(q2) == LET length == q2 + 1 IN (length \div 2) + ((length % 2) - 1)

\* twice the median's rank
q3_idx_double(q2) == 2 * q2

\* the 3rd quantile's rank, q2_idx + q1_idx
q3_idx(q2) == q2 + q1_idx(q2)

\* the flat index without the offset of the pixel: rank q of the first
\* pixel of the block
idx_1D_first_pixel(q, a, bands, rc) == q * rc

\* idx_1D = q * cols * rows + a_off, into the (z, y, x) ordered flat sort
idx_1D(q, a, bands, rc) == q * rc + a

\* idx_1D = q + a_off * bands, into the (y, x, z) ordered flat sort (as_bip)
idx_1D_bip(q, a, bands, rc) == q + a * bands

\* the flat index the branch in use computes
FlatIndex(q, a, bands, rc, bip) ==
    IF bip THEN idx_1D_bip(q, a, bands, rc) ELSE idx_1D(q, a, bands, rc)

\* element i (0-based, in bounds) of flat_sort / sort_orig_idx as a pair
\* <<value, original index>>; sorted[a + 1] is the sorted column of the pixel
\* at offset a
FlatSortAt(sorted, i, bands, rc, bip) ==
    IF bip THEN sorted[(i \div bands) + 1][(i % bands) + 1]
    ELSE sorted[(i % rc) + 1][(i \div rc) + 1]

\* stats[~isfinite(stats)] = nan
InfToNaN(x) == IF IsFinite(x) THEN x ELSE NaN

\* the flat indices of the median, the 1st and the 3rd quantile of the pixel
\* at offset a with median rank q2; -1 where the index is out of bounds
rank_indices(q2, a, bands, rc, bip) ==
    <<PyIndex(FlatIndex(q2, a, bands, rc, bip), bands * rc),
      PyIndex(FlatIndex(q1_idx(q2), a, bands, rc, bip), bands * rc),
      PyIndex(FlatIndex(q3_idx(q2), a, bands, rc, bip), bands * rc)>>

\* the 14 planes assembled from the moments, the sorted columns and the flat
\* indices idx[p] = <<median, q1, q3>> of each pixel; the fancy indexing
\* raises when an index is out of bounds
z_planes(arr, work, bands, rc, bip, copied, mom, sorted, idx) ==
    IF \E p \in 1..rc : \E j \in 1..3 : idx[p][j] = -1
    THEN [err |-> "IndexError", stats |-> <<>>,
          array |-> IF copied THEN arr ELSE work]
    ELSE [err |-> "",
          stats |-> [k \in 1..output_band_count |-> [p \in 1..rc |->
              InfToNaN(
                CASE k = 1 -> mom[p].sum
                  [] k = 2 -> mom[p].mean
                  [] k = 3 -> Num(mom[p].vld_obsv)
                  [] k = 4 -> mom[p].var
                  [] k = 5 -> mom[p].stddev
                  [] k = 6 -> mom[p].skew
                  [] k = 7 -> mom[p].kurt
                  [] k = 8 -> mom[p].max
                  [] k = 9 -> mom[p].min
                  [] k = 10 -> FlatSortAt(sorted, idx[p][1], bands, rc, bip)[1]
                  [] k = 11 -> Num(FlatSortAt(sorted, idx[p][1], bands, rc, bip)[2])
                  [] k = 12 -> FlatSortAt(sorted, idx[p][2], bands, rc, bip)[1]
                  [] k = 13 -> FlatSortAt(sorted, idx[p][3], bands, rc, bip)[1]
                  [] OTHER -> mom[p].gmean)]],
          array |-> IF copied THEN arr ELSE FillOnes(work)]

\* the sort along z and the ranks of the median and the quantiles
z_order(arr, work, bands, rc, bip, copied, mom) ==
    z_planes(arr, work, bands, rc, bip, copied, mom,
             Eval([p \in 1..rc |-> SortPairs(ZColumn(work, bands, rc, p - 1))]),
             Eval([p \in 1..rc |->
                 rank_indices(q2_idx(mom[p].vld_obsv), p - 1, bands, rc, bip)]))

\* the reductions along z of the masked array `work`
z_reduce(arr, work, bands, rc, bip, copied) ==
    z_order(arr, work, bands, rc, bip, copied,
            Eval([p \in 1..rc |-> Moments(ZColumn(work, bands, rc, p - 1))]))

\* the call with the no_data preprocessing ahead of the check of the
\* dimensions
bulk_stats_masks_first(arr, dims, nd, dbl, bip, dt) ==
    IF Len(dims) # 3
    THEN [err |-> "TypeError", stats |-> <<>>,
          array |-> IF Copied(dbl, dt) THEN arr ELSE MaskNoData(arr, nd)]
    ELSE z_reduce(arr, MaskNoData(arr, nd), dims[1], dims[2] * dims[3], bip,
                  Copied(dbl, dt))

\* The call bulk_stats(array, no_data, double, as_bip) on an array of dtype
\* `dt`: err ("" when it returns), the returned array with plane k of the
\* pixel at offset a in stats[k + 1][a + 1], and the caller's array as the
\* call leaves it.
bulk_stats(arr, dims, nd, dbl, bip, dt) ==
    IF Len(dims) # 3
    THEN [err |-> "TypeError", stats |-> <<>>, array |-> arr]
    ELSE z_reduce(arr, MaskNoData(arr, nd), dims[1], dims[2] * dims[3], bip,
                  Copied(dbl, dt))

\* ------------------------------------------------------------------------
\* generate_tiles (src/src/tiling.py)
\* ------------------------------------------------------------------------

\* the number of whole steps below stop
arange_len_floor(stop, step) == IF stop > 0 /\ step > 0 THEN stop \div step ELSE 0

\* len(numpy.arange(0, stop, step)) for step # 0
arange_len(stop, step) ==
    IF step > 0
    THEN (IF stop > 0 THEN (stop + step - 1) \div step ELSE 0)
    ELSE (IF stop < 0 THEN ((-stop) + (-step) - 1) \div (-step) ELSE 0)

\* numpy.arange(0, stop, step) for step # 0 (step = 0 raises)
arange(stop, step) == [i \in 1..arange_len(stop, step) |-> (i - 1) * step]

\* tile_end without the clipping of the last tile to the raster
tile_end_unclipped(step, tile, total) == step + tile

\* tile_end with a tile that does not fit the raster given no extent
tile_end_whole(step, tile, total) ==
    IF step + tile <= total THEN step + tile ELSE step

\* if step + tile < total: end = step + tile, else: end = total
tile_end(step, tile, total) == IF step + tile < total THEN step + tile ELSE total

\* the tile ((ystep, yend), (xstep, xend)) built in the loop body
make_tile(ystep, xstep, ns, nl, xt, yt) ==
    <<<<ystep, tile_end(ystep, yt, nl)>>, <<xstep, tile_end(xstep, xt, ns)>>>>

\* the inner loop run from the last xstep to the one at position j
RECURSIVE row_tiles_reversed(_, _, _, _, _, _, _)
row_tiles_reversed(ystep, xstart, j, ns, nl, xt, yt) ==
    IF j > Len(xstart) THEN <<>>
    ELSE row_tiles_reversed(ystep, xstart, j + 1, ns, nl, xt, yt)
         \o <<make_tile(ystep, xstart[j], ns, nl, xt, yt)>>

\* the inner loop, for xstep in xstart, from position j on
RECURSIVE row_tiles(_, _, _, _, _, _, _)
row_tiles(ystep, xstart, j, ns, nl, xt, yt) ==
    IF j > Len(xstart) THEN <<>>
    ELSE <<make_tile(ystep, xstart[j], ns, nl, xt, yt)>>
         \o row_tiles(ystep, xstart, j + 1, ns, nl, xt, yt)

\* the outer loop, for ystep in ystart, from position i on
RECURSIVE tiles_from(_, _, _, _, _, _, _)
tiles_from(ystart, xstart, i, ns, nl, xt, yt) ==
    IF i > Len(ystart) THEN <<>>
    ELSE row_tiles(ystart[i], xstart, 1, ns, nl, xt, yt)
         \o tiles_from(ystart, xstart, i + 1, ns, nl, xt, yt)

\* the tiles with the loops exchanged: for xstep in xstart outermost
tiles_list_column_major(ns, nl, xt, yt) ==
    LET ystart == arange(nl, yt)
        xstart == arange(ns, xt)
    IN  [k \in 1..(Len(ystart) * Len(xstart)) |->
            make_tile(ystart[((k - 1) % Len(ystart)) + 1],
                      xstart[((k - 1) \div Len(ystart)) + 1], ns, nl, xt, yt)]

\* tiles_list(samples, lines, xstart, ystart)
tiles_list(ns, nl, xt, yt) ==
    tiles_from(arange(nl, yt), arange(ns, xt), 1, ns, nl, xt, yt)

\* ------------------------------------------------------------------------
\* TiledOutput (src/src/tiling.py) and the raster library calls it makes
\* ------------------------------------------------------------------------
\* A 2D array is a sequence of rows, a 3D array a sequence of 2D planes; an
\* array value is the record [ndim, data].  Offsets are 0-based as in the
\* code, sequences 1-based.

NoArray == [ndim |-> 0, data |-> <<>>]

NoneTypeError == "TypeError: 'NoneType' object is not subscriptable"
NotIterableError == "TypeError: 'NoneType' object is not iterable"
DimsError == "TypeError: Input array is not 2 or 3 dimensions"
RequiredError == "TypeError: Samples and lines are required inputs!"
KeywordError == "TypeError: __init__() got an unexpected keyword argument"
WriteArrayError == "ValueError: array larger than output file, or offset off edge"

NRows(a2) == Len(a2)
NCols(a2) == IF Len(a2) = 0 THEN 0 ELSE Len(a2[1])

\* array.shape
Shape(a) ==
    IF a.ndim = 2 THEN <<NRows(a.data), NCols(a.data)>>
    ELSE <<Len(a.data), NRows(a.data[1]), NCols(a.data[1])>>

\* the bands of an array: a 2D array is one band
Planes(a) == IF a.ndim = 2 THEN <<a.data>> ELSE a.data

\* a2[ys:ye, xs:xe] for 0 <= ys and 0 <= xs; a slice end is clamped to the
\* array
Slice2(a2, ys, ye, xs, xe) ==
    LET yend == IF ye < NRows(a2) THEN ye ELSE NRows(a2)
        xend == IF xe < NCols(a2) THEN xe ELSE NCols(a2)
    IN  Eval([r \in 1..(yend - ys) |->
                 Eval([c \in 1..(xend - xs) |-> a2[ys + r][xs + c]])])

\* subset = a[ys:ye, xs:xe] or a[:, ys:ye, xs:xe]
Subset(a, tile) ==
    IF a.ndim = 2
    THEN [ndim |-> 2,
          data |-> Slice2(a.data, tile[1][1], tile[1][2], tile[2][1], tile[2][2])]
    ELSE [ndim |-> 3,
          data |-> Eval([b \in 1..Len(a.data) |->
                      Slice2(a.data[b], tile[1][1], tile[1][2],
                             tile[2][1], tile[2][2])])]

\* driver.Create(out_fname, samples, lines, bands, dtype): a zero-filled file
Create(ns, nl, nb) ==
    Eval([b \in 1..nb |-> Eval([r \in 1..nl |-> Eval([c \in 1..ns |-> 0])])])

\* a2 at column offset xoff and row offset yoff of a plane that is cleared
\* elsewhere
PasteCleared(plane, a2, xoff, yoff) ==
    Eval([r \in 1..NRows(plane) |->
        Eval([c \in 1..NCols(plane) |->
            IF /\ yoff < r /\ r <= yoff + NRows(a2)
               /\ xoff < c /\ c <= xoff + NCols(a2)
            THEN a2[r - yoff][c - xoff]
            ELSE 0])])

\* the plane with a2 placed at column offset xoff and row offset yoff
Paste(plane, a2, xoff, yoff) ==
    Eval([r \in 1..NRows(plane) |->
        Eval([c \in 1..NCols(plane) |->
            IF /\ yoff < r /\ r <= yoff + NRows(a2)
               /\ xoff < c /\ c <= xoff + NCols(a2)
            THEN a2[r - yoff][c - xoff]
            ELSE plane[r][c]])])

\* Band.WriteArray that ignores the offsets
WriteArrayAtOrigin(plane, a2, xoff, yoff) ==
    [ok |-> TRUE, plane |-> Paste(plane, a2, 0, 0)]

\* Band.WriteArray(a2, xoff, yoff): raises when the array does not fit in the
\* band at that offset
WriteArray(plane, a2, xoff, yoff) ==
    IF \/ xoff < 0 \/ yoff < 0
       \/ xoff + NCols(a2) > NCols(plane)
       \/ yoff + NRows(a2) > NRows(plane)
    THEN [ok |-> FALSE, plane |-> plane]
    ELSE [ok |-> TRUE, plane |-> Paste(plane, a2, xoff, yoff)]

\* gdal.Open(fname).ReadAsArray(): 2D for a file of one band, else 3D
ReadAsArray(file) ==
    IF Len(file) = 1 THEN [ndim |-> 2, data |-> file[1]]
    ELSE [ndim |-> 3, data |-> file]

\* _set_bands_lookup: the dictionary keyed 1..self.bands
set_bands_lookup(nb) == [isNone |-> FALSE, keys |-> 1..nb]

\* the names __init__ accepts as keywords
InitKeywords ==
    {"out_fname", "samples", "lines", "bands", "geobox", "fmt", "nodata",
     "dtype"}

\* TiledOutput(out_fname, samples, lines, bands, ..., **keywords); samples and
\* lines are <<>> for None, else <<n>>
TiledOutput(ns, nl, nb, keywords) ==
    IF ~(keywords \subseteq InitKeywords)
    THEN [err |-> KeywordError]
    ELSE IF ns = <<>> \/ nl = <<>>
    THEN [err |-> RequiredError]
    ELSE [err |-> "", bands |-> nb, out_bands |-> set_bands_lookup(nb),
          closed |-> FALSE, raster |-> Create(ns[1], nl[1], nb)]

\* the loop of the 3D branch from band i on
RECURSIVE write_bands(_, _, _, _, _, _, _)
write_bands(file, ob, nb, a, i, xstart, ystart) ==
    IF i > nb THEN [err |-> "", raster |-> file]
    ELSE IF ob.isNone THEN [err |-> NoneTypeError, raster |-> file]
    ELSE IF i \notin ob.keys THEN [err |-> "KeyError", raster |-> file]
    ELSE IF i > Len(a.data) THEN [err |-> "IndexError", raster |-> file]
    ELSE LET w == WriteArray(file[i], a.data[i], xstart, ystart)
         IN  IF ~w.ok THEN [err |-> WriteArrayError, raster |-> file]
             ELSE write_bands([file EXCEPT ![i] = w.plane], ob, nb, a, i + 1,
                              xstart, ystart)

\* write_tile(self, array, tile, raster_band); raster_band is <<>> for None
write_tile(file, ob, nb, a, tile, raster_band) ==
    IF a.ndim \notin {2, 3} THEN [err |-> DimsError, raster |-> file]
    ELSE LET ystart == tile[1][1]
             xstart == tile[2][1]
         IN  IF a.ndim = 3
             THEN write_bands(file, ob, nb, a, 1, xstart, ystart)
             ELSE LET band == IF raster_band = <<>> THEN 1 ELSE raster_band[1]
                  IN  IF ob.isNone THEN [err |-> NoneTypeError, raster |-> file]
                      ELSE IF band \notin ob.keys
                      THEN [err |-> "KeyError", raster |-> file]
                      ELSE LET w == WriteArray(file[band], a.data, xstart, ystart)
                           IN  IF ~w.ok
                               THEN [err |-> WriteArrayError, raster |-> file]
                               ELSE [err |-> "",
                                     raster |-> [file EXCEPT ![band] = w.plane]]

\* close() that leaves the band handles in place
close_keep_bands(ob, cl) == [err |-> "", out_bands |-> ob, closed |-> TRUE]

\* close() that releases the band handles without setting self.closed
close_unmarked(ob, cl) ==
    IF ob.isNone THEN [err |-> NotIterableError, out_bands |-> ob, closed |-> cl]
    ELSE [err |-> "", out_bands |-> [isNone |-> TRUE, keys |-> {}],
          closed |-> cl]

\* close(self): iterating self.out_bands raises once it is None
close(ob, cl) ==
    IF ob.isNone THEN [err |-> NotIterableError, out_bands |-> ob, closed |-> cl]
    ELSE [err |-> "", out_bands |-> [isNone |-> TRUE, keys |-> {}],
          closed |-> TRUE]

\* ------------------------------------------------------------------------
\* StackedDataset.z_axis_stats (src/eotools/drivers/stacked_dataset.py)
\* ------------------------------------------------------------------------

\* the default ysize of init_tiling
default_ysize == 10

\* init_tiling(): self.tiles with xsize = self.samples and ysize = 10
init_tiling(ns, nl) == tiles_list(ns, nl, ns, default_ysize)

\* get_tile(index): self.tiles[index], a negative index counting from the
\* end
get_tile(tl, index) ==
    IF PyIndex(index, Len(tl)) = -1 THEN "IndexError"
    ELSE tl[PyIndex(index, Len(tl)) + 1]

\* read_tile(tile, raster_bands) with the list of all bands: the block
\* [:, ystart:yend, xstart:xend] of the file, reshaped to
\* (n_bands, ysize, xsize); arr is the file as a flat block of dims
\* <<bands, lines, samples>>
read_tile(arr, dims, tile) ==
    LET ystart == tile[1][1]
        xstart == tile[2][1]
        xsize == tile[2][2] - tile[2][1]
        ysize == tile[1][2] - tile[1][1]
    IN  [dims |-> <<dims[1], ysize, xsize>>,
         data |-> Eval([i \in 1..(dims[1] * ysize * xsize) |->
             arr[((i - 1) \div (ysize * xsize)) * dims[2] * dims[3]
                 + (ystart + (((i - 1) % (ysize * xsize)) \div xsize)) * dims[3]
                 + xstart + ((i - 1) % xsize) + 1]])]

band_names ==
    <<"Sum", "Mean", "Valid Observations", "Variance", "Standard Deviation",
      "Skewness", "Kurtosis", "Max", "Min",
      "Median (non-interpolated value)", "Median Index (zero based index)",
      "1st Quantile (non-interpolated value)",
      "3rd Quantile (non-interpolated value)", "Geometric Mean">>

out_nb == 14

\* for i in range(out_nb): outds.out_bands[i].SetDescription(band_names[i]),
\* from i on; desc holds the descriptions set so far
RECURSIVE set_descriptions(_, _, _)
set_descriptions(ob, i, desc) ==
    IF i >= out_nb THEN [err |-> "", desc |-> desc]
    ELSE IF i \notin ob.keys THEN [err |-> "KeyError", desc |-> desc]
    ELSE set_descriptions(ob, i + 1, [desc EXCEPT ![i] = band_names[i + 1]])

\* z_axis_stats(self): the writer is constructed with the keywords no_data
\* and dtype, then the band names are set.  The statements after the naming
\* loop (lines 467-486) run only when the loop ends without an exception.
z_axis_stats(ns, nl, tl) ==
    LET tls == IF Len(tl) = 0 THEN init_tiling(ns, nl) ELSE tl
        outds == TiledOutput(<<ns>>, <<nl>>, out_nb, {"no_data", "dtype"})
    IN  IF outds.err # ""
        THEN [err |-> outds.err, desc |-> <<>>, tiles |-> tls]
        ELSE LET named == set_descriptions(outds.out_bands, 0,
                                           [b \in 1..out_nb |-> ""])
             IN  [err |-> named.err, desc |-> named.desc, tiles |-> tls]

\* get_raster_band_datetime returns None for a band whose metadata has no
\* start_datetime item; the years of a datetime are 1..9999
NoDate == 0

AttributeError == "AttributeError: 'NoneType' object has no attribute 'year'"

\* range(1, bands + 1)
BandRange(bands) == [i \in 1..bands |-> i]

\* self.yearly_iterator[key] = band_list
SetItem(it, key, band_list) ==
    [k \in DOMAIN it \cup {key} |-> IF k = key THEN band_list ELSE it[k]]

\* the loop for i in range(2, self.bands + 1) of init_yearly_iterator, from
\* i on: the band list of a year is stored when a band of the same year
\* follows and when a band of another year follows
RECURSIVE yearly_loop(_, _, _, _, _, _)
yearly_loop(years, bands, i, year_one, band_list, it) ==
    IF i > bands THEN [err |-> "", it |-> it]
    ELSE IF years[i] = NoDate THEN [err |-> AttributeError, it |-> it]
    ELSE IF years[i] = year_one
    THEN yearly_loop(years, bands, i + 1, year_one, Append(band_list, i),
                     SetItem(it, year_one, Append(band_list, i)))
    ELSE yearly_loop(years, bands, i + 1, years[i], <<i>>,
                     SetItem(it, year_one, band_list))

\* init_yearly_iterator(self)
init_yearly_iterator(years, bands) ==
    IF years[1] # NoDate
    THEN yearly_loop(years, bands, 2, years[1], <<1>>,
                     SetItem(<<>>, years[1], <<1>>))
    ELSE [err |-> "", it |-> SetItem(<<>>, 0, BandRange(bands))]

\* ------------------------------------------------------------------------
\* One call of bulk_stats on a block drawn from the bounded inputs
\* ------------------------------------------------------------------------

\* the largest number of elements of a block of several pixels
MaxCells == 4

\* the largest depth of a block of one pixel: a column of 5 observations is
\* the shortest whose 1st quantile is not its minimum
MaxDepth == 5

\* the largest number of elements of an array that is not 3-dimensional
MaxOtherCells == 2

\* block values are NaN and the numbers 0..MaxVal
MaxVal == 1

Values == {NaN} \cup {Num(v) : v \in 0..MaxVal}

Shapes3D ==
    {sh \in (1..MaxCells) \X (1..MaxCells) \X (1..MaxCells) :
        sh[1] * sh[2] * sh[3] <= MaxCells}
    \cup {<<d, 1, 1>> : d \in (MaxCells + 1)..MaxDepth}

\* no_data is None, 0 or the largest block value
NoDataArgs == {<<>>, <<0>>, <<MaxVal>>}

\* blocks are float32 arrays, the dtype bulk_stats computes in unless double
\* is set
DTypes == {"float32"}

\* array.size of an array of the given shape
RECURSIVE ShapeSize(_)
ShapeSize(sh) == IF sh = <<>> THEN 1 ELSE sh[1] * ShapeSize(Tail(sh))

\* the shapes of the arrays of 0, 1, 2 and 4 dimensions
ShapesNot3D ==
    {sh \in UNION {[1..r -> 1..MaxOtherCells] : r \in {0, 1, 2, 4}} :
        ShapeSize(sh) <= MaxOtherCells}

StatsIdle ==
    /\ array = <<>> /\ orig = <<>> /\ shape = <<>> /\ no_data = <<>>
    /\ double = FALSE /\ as_bip = FALSE /\ dtype = "float32"
    /\ pc = "idle" /\ stats = <<>> /\ err = ""

StatsInit ==
    /\ shape \in Shapes3D \cup ShapesNot3D
    /\ array \in [1..ShapeSize(shape) -> Values]
    /\ orig = array
    /\ no_data \in NoDataArgs
    /\ double \in BOOLEAN
    /\ as_bip \in BOOLEAN
    /\ dtype \in DTypes
    /\ pc = "ready"
    /\ stats = <<>>
    /\ err = ""

\* the blocks read_tile hands to the tile loop of z_axis_stats, and the
\* arguments of the loop's call stats = bulk_stats(subset, no_data): the block
\* is 3-dimensional, double and as_bip keep their default False
TileLoopInit ==
    /\ StatsInit
    /\ Len(shape) = 3
    /\ ~double
    /\ ~as_bip

\* stats = bulk_stats(array, no_data, double, as_bip)
BulkStats ==
    /\ pc = "ready"
    /\ \E r \in {bulk_stats(array, shape, no_data, double, as_bip, dtype)} :
           /\ array' = r.array
           /\ stats' = r.stats
           /\ err' = r.err
           /\ pc' = IF r.err = "" THEN "returned" ELSE "raised"
    /\ UNCHANGED <<orig, shape, no_data, double, as_bip, dtype>>
    /\ UNCHANGED <<tileVars, writerVars, zVars, yearVars>>

\* ------------------------------------------------------------------------
\* One call of generate_tiles and the iteration of the returned generator
\* ------------------------------------------------------------------------

\* raster and tile sizes are 0..MaxDim
MaxDim == 4

TilesIdle ==
    /\ samples = 0 /\ lines = 0 /\ xtile = 0 /\ ytile = 0
    /\ generator = FALSE /\ tpc = "idle" /\ tiles = <<>>
    /\ ypos = 0 /\ xpos = 0

TilesInit ==
    /\ samples \in 0..MaxDim
    /\ lines \in 0..MaxDim
    /\ xtile \in 0..MaxDim
    /\ ytile \in 0..MaxDim
    /\ generator \in BOOLEAN
    /\ tpc = "ready"
    /\ tiles = <<>>
    /\ ypos = 0
    /\ xpos = 0

\* generate_tiles(samples, lines, xtile, ytile, generator): numpy.arange
\* raises on a zero step; otherwise the list is built, or a generator object
\* is returned that has not run yet
GenerateTiles ==
    /\ tpc = "ready"
    /\ IF xtile = 0 \/ ytile = 0
       THEN /\ tpc' = "raised"
            /\ UNCHANGED <<tiles, ypos, xpos>>
       ELSE IF generator
       THEN /\ tpc' = "iterating"
            /\ ypos' = 1
            /\ xpos' = 1
            /\ UNCHANGED tiles
       ELSE /\ tpc' = "done"
            /\ tiles' = tiles_list(samples, lines, xtile, ytile)
            /\ UNCHANGED <<ypos, xpos>>
    /\ UNCHANGED <<samples, lines, xtile, ytile, generator>>
    /\ UNCHANGED <<statsVars, writerVars, zVars, yearVars>>

\* next() on the generator: run tiles_generator to its next yield, or to its
\* end (StopIteration) when the outer loop is exhausted
GeneratorNext ==
    /\ tpc = "iterating"
    /\ LET ystart == arange(lines, ytile)
           xstart == arange(samples, xtile)
       IN  IF ypos > Len(ystart) \/ Len(xstart) = 0
           THEN /\ tpc' = "done"
                /\ UNCHANGED <<tiles, ypos, xpos>>
           ELSE /\ tiles' = Append(tiles,
                                make_tile(ystart[ypos], xstart[xpos],
                                          samples, lines, xtile, ytile))
                /\ IF xpos < Len(xstart)
                   THEN xpos' = xpos + 1 /\ ypos' = ypos
                   ELSE xpos' = 1 /\ ypos' = ypos + 1
                /\ tpc' = tpc
    /\ UNCHANGED <<samples, lines, xtile, ytile, generator>>
    /\ UNCHANGED <<statsVars, writerVars, zVars, yearVars>>

TilesNext == GenerateTiles \/ GeneratorNext

\* ------------------------------------------------------------------------
\* A caller that writes a source array through a TiledOutput tile by tile,
\* closes it and reads the file back (the example of the class, lines 171-227)
\* ------------------------------------------------------------------------

\* the source array has 1..MaxWDim lines and samples and, when 3D,
\* 1..MaxWBands bands; tile sizes are 1..MaxWDim, and the tiling has at most
\* MaxWTiles tiles
MaxWDim == 3
MaxWBands == 2
MaxWTiles == 4

\* The writer moves pixel values without inspecting them, so a source array
\* whose pixels are pairwise distinct (and differ from the 0 the file is
\* created with) stands for every source array of its shape.
SourceArray(nd, nb, nl, ns) ==
    LET plane(b) == Eval([r \in 1..nl |->
                       Eval([c \in 1..ns |-> ((b - 1) * nl + (r - 1)) * ns + c])])
    IN  IF nd = 2 THEN [ndim |-> 2, data |-> plane(1)]
        ELSE [ndim |-> 3, data |-> Eval([b \in 1..nb |-> plane(b)])]

\* a[0] of a 2D array: a 1D array, which write_tile rejects
FirstRow(a) == [ndim |-> 1, data |-> a.data[1]]

WriterIdle ==
    /\ src = NoArray /\ wtiles = <<>> /\ wpc = "idle" /\ w_bands = 0
    /\ out_bands = [isNone |-> TRUE, keys |-> {}] /\ closed = FALSE
    /\ raster = <<>> /\ wcall = "" /\ werr = "" /\ written = {}
    /\ img = NoArray

WriterInit ==
    /\ \E nd \in {2, 3}, nb \in 1..MaxWBands, nl \in 1..MaxWDim,
          ns \in 1..MaxWDim, xt \in 1..MaxWDim, yt \in 1..MaxWDim :
          /\ nd = 2 => nb = 1
          /\ src = SourceArray(nd, nb, nl, ns)
          /\ wtiles = tiles_list(ns, nl, xt, yt)
          /\ Len(wtiles) <= MaxWTiles
    /\ wpc = "new"
    /\ w_bands = 0
    /\ out_bands = [isNone |-> TRUE, keys |-> {}]
    /\ closed = FALSE
    /\ raster = <<>>
    /\ wcall = ""
    /\ werr = ""
    /\ written = {}
    /\ img = NoArray

\* outds = TiledOutput(fname, samples=a.shape[-1], lines=a.shape[-2],
\* bands=a.shape[0] for a 3D source), or without samples
Construct ==
    /\ wpc = "new"
    /\ \E given \in BOOLEAN :
          LET sh == Shape(src)
              ns == sh[Len(sh)]
              nl == sh[Len(sh) - 1]
              nb == IF src.ndim = 3 THEN sh[1] ELSE 1
              w  == TiledOutput(IF given THEN <<ns>> ELSE <<>>, <<nl>>, nb,
                                {"samples", "lines", "bands"})
          IN  IF w.err # ""
              THEN /\ wpc' = "failed"
                   /\ werr' = w.err
                   /\ UNCHANGED <<w_bands, out_bands, closed, raster>>
              ELSE /\ wpc' = "open"
                   /\ werr' = ""
                   /\ w_bands' = w.bands
                   /\ out_bands' = w.out_bands
                   /\ closed' = w.closed
                   /\ raster' = w.raster
    /\ wcall' = "__init__"
    /\ UNCHANGED <<src, wtiles, written, img>>
    /\ UNCHANGED <<statsVars, tileVars, zVars, yearVars>>

\* outds.write_tile(subset, tile) for any tile, in any order and any number of
\* times; for a 2D source also outds.write_tile(subset, tile, band) (the band
\* is ignored for a 3D array); also with a 1D array
WriteTile ==
    /\ wpc = "open"
    /\ \E k \in 1..Len(wtiles), oneD \in BOOLEAN,
          rb \in IF src.ndim = 2 THEN {<<>>, <<1>>, <<2>>} ELSE {<<>>} :
          /\ oneD => rb = <<>>
          /\ LET subset == Subset(src, wtiles[k])
                 a == IF oneD THEN FirstRow(subset) ELSE subset
                 w == write_tile(raster, out_bands, w_bands, a, wtiles[k], rb)
             IN  /\ raster' = w.raster
                 /\ werr' = w.err
                 /\ written' = IF w.err = "" THEN written \cup {k} ELSE written
    /\ wcall' = "write_tile"
    /\ UNCHANGED <<src, wtiles, wpc, w_bands, out_bands, closed, img>>
    /\ UNCHANGED <<statsVars, tileVars, zVars, yearVars>>

\* outds.close()
Close ==
    /\ wpc = "open"
    /\ LET c == close(out_bands, closed)
       IN  /\ out_bands' = c.out_bands
           /\ closed' = c.closed
           /\ werr' = c.err
    /\ wcall' = "close"
    /\ UNCHANGED <<src, wtiles, wpc, w_bands, raster, written, img>>
    /\ UNCHANGED <<statsVars, tileVars, zVars, yearVars>>

\* img = gdal.Open(fname).ReadAsArray(), once the writer is closed
ReadBack ==
    /\ wpc = "open"
    /\ closed
    /\ img' = ReadAsArray(raster)
    /\ wcall' = "ReadAsArray"
    /\ werr' = ""
    /\ UNCHANGED <<src, wtiles, wpc, w_bands, out_bands, closed, raster, written>>
    /\ UNCHANGED <<statsVars, tileVars, zVars, yearVars>>

WriterNext == Construct \/ WriteTile \/ Close \/ ReadBack

\* the arrays a caller can pass that do not match the writer's geometry: the
\* tile's sub-array as a 3D stack with its last plane missing or repeated,
\* and the whole source array
FewerPlanes(a) ==
    [ndim |-> 3, data |-> SubSeq(Planes(a), 1, Len(Planes(a)) - 1)]

MorePlanes(a) ==
    [ndim |-> 3, data |-> Append(Planes(a), Planes(a)[Len(Planes(a))])]

MismatchCalls ==
    {"write_tile, depth below bands", "write_tile, depth above bands",
     "write_tile, past the bounds"}

\* outds.write_tile(array, tile) with an array that does not match: a stack
\* of bands - 1 or of bands + 1 planes, or the whole source at the offset of
\* a tile that does not start at the origin
WriteMismatch ==
    /\ wpc = "open"
    /\ \E k \in 1..Len(wtiles), call \in MismatchCalls :
          /\ call = "write_tile, past the bounds" =>
                (wtiles[k][1][1] > 0 \/ wtiles[k][2][1] > 0)
          /\ LET subset == Subset(src, wtiles[k])
                 a == IF call = "write_tile, depth below bands"
                      THEN FewerPlanes(subset)
                      ELSE IF call = "write_tile, depth above bands"
                      THEN MorePlanes(subset)
                      ELSE src
                 w == write_tile(raster, out_bands, w_bands, a, wtiles[k], <<>>)
             IN  /\ raster' = w.raster
                 /\ werr' = w.err
          /\ wcall' = call
    /\ UNCHANGED <<src, wtiles, wpc, w_bands, out_bands, closed, img, written>>
    /\ UNCHANGED <<statsVars, tileVars, zVars, yearVars>>

MismatchNext == Construct \/ WriteTile \/ WriteMismatch \/ Close \/ ReadBack

\* ------------------------------------------------------------------------
\* One call of z_axis_stats on a StackedDataset
\* ------------------------------------------------------------------------

ZIdle ==
    /\ z_samples = 0 /\ z_lines = 0 /\ z_bands = 0 /\ z_no_data = <<>>
    /\ z_tiles = <<>> /\ n_tiles = 0 /\ zpc = "idle" /\ zerr = ""
    /\ band_desc = <<>>

\* StackedDataset(filename): the sizes of the file, its no data value, and
\* the default tiling
ZInit ==
    /\ z_samples \in 1..MaxDim
    /\ z_lines \in 1..MaxDim
    /\ z_bands \in 1..MaxCells
    /\ z_no_data \in NoDataArgs
    /\ z_tiles = init_tiling(z_samples, z_lines)
    /\ n_tiles = Len(z_tiles)
    /\ zpc = "ready"
    /\ zerr = ""
    /\ band_desc = <<>>

ZAxisStats ==
    /\ zpc = "ready"
    /\ LET r == z_axis_stats(z_samples, z_lines, z_tiles)
       IN  /\ zerr' = r.err
           /\ band_desc' = r.desc
           /\ z_tiles' = r.tiles
           /\ n_tiles' = Len(r.tiles)
           /\ zpc' = IF r.err = "" THEN "returned" ELSE "raised"
    /\ UNCHANGED <<z_samples, z_lines, z_bands, z_no_data>>
    /\ UNCHANGED <<statsVars, tileVars, writerVars, yearVars>>

ZNext == ZAxisStats

StatsNext == BulkStats

\* ------------------------------------------------------------------------
\* One call of init_yearly_iterator on a StackedDataset
\* ------------------------------------------------------------------------

MaxYBands == 4
MaxYears == 3

FirstYear == 1995
Years == FirstYear..(FirstYear + MaxYears - 1)

YearIdle ==
    /\ y_bands = 0 /\ start_year = <<>> /\ yearly_iterator = <<>>
    /\ ypc = "idle" /\ yerr = ""

\* StackedDataset(filename) on a file of 1..MaxYBands bands, each band's
\* metadata with or without a start_datetime item
YearInit ==
    /\ y_bands \in 1..MaxYBands
    /\ start_year \in [1..y_bands -> Years \cup {NoDate}]
    /\ yearly_iterator = <<>>
    /\ ypc = "ready"
    /\ yerr = ""

InitYearlyIterator ==
    /\ ypc = "ready"
    /\ LET r == init_yearly_iterator(start_year, y_bands)
       IN  /\ yearly_iterator' = r.it
           /\ yerr' = r.err
           /\ ypc' = IF r.err = "" THEN "returned" ELSE "raised"
    /\ UNCHANGED <<y_bands, start_year>>
    /\ UNCHANGED <<statsVars, tileVars, writerVars, zVars>>

\* get_yearly_iterator returns the dictionary and changes nothing
GetYearlyIterator ==
    /\ ypc = "returned"
    /\ ypc' = "read"
    /\ UNCHANGED <<y_bands, start_year, yearly_iterator, yerr>>
    /\ UNCHANGED <<statsVars, tileVars, writerVars, zVars>>

YearNext == InitYearlyIterator \/ GetYearlyIterator

\* ------------------------------------------------------------------------
\* Specifications: each exercises one component, the others stay idle
\* ------------------------------------------------------------------------

InitStats == StatsInit /\ TilesIdle /\ WriterIdle /\ ZIdle /\ YearIdle

InitTiles == TilesInit /\ StatsIdle /\ WriterIdle /\ ZIdle /\ YearIdle

InitWriter == WriterInit /\ StatsIdle /\ TilesIdle /\ ZIdle /\ YearIdle

InitZ == ZInit /\ StatsIdle /\ TilesIdle /\ WriterIdle /\ YearIdle

InitTileLoop ==
    TileLoopInit /\ TilesIdle /\ WriterIdle /\ ZIdle /\ YearIdle

InitYear == YearInit /\ StatsIdle /\ TilesIdle /\ WriterIdle /\ ZIdle

SpecStats == InitStats /\ [][StatsNext]_vars

SpecTiles == InitTiles /\ [][TilesNext]_vars

SpecWriter == InitWriter /\ [][WriterNext]_vars

\* the writer with callers that also pass mismatching arrays
SpecMismatch == InitWriter /\ [][MismatchNext]_vars

SpecZ == InitZ /\ [][ZNext]_vars

\* bulk_stats as the tile loop of z_axis_stats calls it
SpecTileLoop == InitTileLoop /\ [][StatsNext]_vars

SpecYear == InitYear /\ [][YearNext]_vars

\* ------------------------------------------------------------------------
\* Properties of bulk_stats
\* ------------------------------------------------------------------------

\* the number of pixels of the block
NPix == shape[2] * shape[3]

\* the block the kernel reduces: the caller's block after the no_data
\* preprocessing (lines 118-120)
KernelBlock == MaskNoData(orig, no_data)

\* the z-column of pixel p (1-based pixel offset) of the kernel's block
Column(p) == ZColumn(KernelBlock, shape[1], NPix, p - 1)

\* the positions of the valid (non-missing) observations of a column
ValidIn(col) == {z \in 1..Len(col) : ~IsNaN(col[z])}

\* the z positions of the valid (non-missing) observations of pixel p
ValidObs(p) == ValidIn(Column(p))

\* plane k (0-based) of the result at pixel p
Plane(k, p) == stats[k + 1][p]

\* m is the element at 0-based index `rank` of the ascending-sorted valid
\* values of the column col
IsOrderStatisticOf(col, m, rank) ==
    /\ \E z \in ValidIn(col) : col[z] = m
    /\ Cardinality({z \in ValidIn(col) : RatLess(col[z], m)}) <= rank
    /\ rank < Cardinality({z \in ValidIn(col) : ~RatLess(m, col[z])})

\* m is the element at 0-based index `rank` of the ascending-sorted valid
\* values of pixel p
IsOrderStatistic(m, p, rank) == IsOrderStatisticOf(Column(p), m, rank)

C3_AllMissingIsNaN ==
    pc = "returned" =>
        \A p \in 1..NPix :
            ValidObs(p) = {} =>
                /\ Plane(2, p) = Num(0)
                /\ \A k \in (0..13) \ {2} : IsNaN(Plane(k, p))

\* C7 (as claimed): with a no_data value given, 0 included, the elements
\* equal to no_data are missing: valid_count counts the others only.
C7_NoDataIsMissing ==
    (pc = "returned" /\ no_data # <<>>) =>
        \A p \in 1..NPix :
            Plane(2, p) =
                Num(Cardinality({z \in 1..shape[1] :
                        LET v == ZColumn(orig, shape[1], NPix, p - 1)[z]
                        IN  ~IsNaN(v) /\ v # Num(no_data[1])}))

\* C8 (as claimed): the call leaves the caller's array as it was.
C8_InputUnchanged == pc \in {"returned", "raised"} => array = orig

\* C9 (as claimed): a call on a 3-dimensional block never raises.
C9_NeverRaises == Len(shape) = 3 => pc # "raised"

\* C10 (as claimed): a pixel with exactly one valid observation v has NaN
\* variance, stddev, skewness and kurtosis, valid_count 1, and sum, mean,
\* max, min, median and geometric_mean equal to v.
C10_SingleObservation ==
    pc = "returned" =>
        \A p \in 1..NPix :
            Cardinality(ValidObs(p)) = 1 =>
                LET v == NanMax(Column(p))
                IN  /\ \A k \in {3, 4, 5, 6} : IsNaN(Plane(k, p))
                    /\ Plane(2, p) = Num(1)
                    /\ \A k \in {0, 1, 7, 8, 9, 13} : Plane(k, p) = v

MedianRank(n) == IF n % 2 = 1 THEN (n - 1) \div 2 ELSE (n \div 2) - 1

\* floor(L/2) + ((L mod 2) - 1) with L = m + 1
Q1Rank(m) == ((m + 1) \div 2) + (((m + 1) % 2) - 1)

NotAbove(x, y) == ~IsNaN(x) /\ ~IsNaN(y) /\ ~RatLess(y, x)

\* the ranks the code computes for n valid observations are in order and
\* below n
RanksInOrder(n, q2, q1, q3) ==
    /\ 0 <= q1 /\ q1 <= q2 /\ q2 <= q3 /\ q3 <= n - 1
    /\ q3 = q2 + q1

IsMissing(v) == IsNaN(v) \/ (no_data # <<>> /\ v = Num(no_data[1]))

\* the z-column of pixel p of the block as the caller gave it
GivenColumn(p) == ZColumn(orig, shape[1], NPix, p - 1)

\* the total of the non-missing observations of col from position i on
RECURSIVE TotalFrom(_, _)
TotalFrom(col, i) ==
    IF i > Len(col) THEN Num(0)
    ELSE IF IsMissing(col[i]) THEN TotalFrom(col, i + 1)
    ELSE Add(col[i], TotalFrom(col, i + 1))

\* C14 (as claimed): for every pixel valid_count (plane 2) is the number of
\* non-missing observations of its z-column, sum (plane 0) is the total of
\* exactly those, and with valid_count = n >= 1 mean (plane 1) is sum / n, so
\* that sum = n * mean.
C14_CountSumMean ==
    pc = "returned" =>
        \A p \in 1..NPix :
            LET n == Cardinality({z \in 1..shape[1] : ~IsMissing(GivenColumn(p)[z])})
            IN  /\ Plane(2, p) = Num(n)
                /\ Plane(0, p) = TotalFrom(GivenColumn(p), 1)
                /\ n >= 1 =>
                      /\ Plane(1, p) = Div(Plane(0, p), Num(n))
                      /\ Plane(0, p) = Mul(Num(n), Plane(1, p))

\* the sum of (value - mean)^2 over the valid observations of col from
\* position i on
RECURSIVE SquaredDeviationsFrom(_, _, _)
SquaredDeviationsFrom(col, mean, i) ==
    IF i > Len(col) THEN Num(0)
    ELSE IF IsNaN(col[i]) THEN SquaredDeviationsFrom(col, mean, i + 1)
    ELSE Add(Mul(Sub(col[i], mean), Sub(col[i], mean)),
             SquaredDeviationsFrom(col, mean, i + 1))

C16_LayoutsAgree ==
    (pc \in {"returned", "raised"} /\ Len(shape) = 3) =>
        \E r \in {bulk_stats(orig, shape, no_data, double, ~as_bip, dtype)} :
            /\ r.err = err
            /\ r.stats = stats

\* the pixel at (row, col) of tile t, as a 1-based offset into the planes of
\* the tile's block
TilePixel(t, row, col) ==
    (row - t[1][1]) * (t[2][2] - t[2][1]) + (col - t[2][1]) + 1

\* the call the tile loop makes on the block sub of one tile
TileCall(sub) == bulk_stats(sub.data, sub.dims, no_data, FALSE, FALSE, dtype)

\* the call the tile loop makes on tile t of the given block
TileStats(t) == TileCall(read_tile(orig, shape, t))

\* the block cut into tiles of xt samples by yt lines gives, tile by tile
\* and placed at the tile offsets, the planes res; the run raises when the
\* call on one of the tiles raises
SameTileByTile(res, failed, tl) ==
    \E rs \in {Eval([k \in 1..Len(tl) |-> TileStats(tl[k])])} :
        /\ failed <=> \E k \in 1..Len(tl) : rs[k].err # ""
        /\ ~failed =>
               \A k \in 1..Len(tl) :
                   \A row \in tl[k][1][1]..(tl[k][1][2] - 1) :
                       \A col \in tl[k][2][1]..(tl[k][2][2] - 1) :
                           \A b \in 1..output_band_count :
                               rs[k].stats[b][TilePixel(tl[k], row, col)]
                                   = res[b][row * shape[3] + col + 1]

\* C29: with the arguments of the tile loop (as_bip and double left at
\* False), for every block and every tile size the statistics computed tile
\* by tile and placed at the tile offsets equal, at every pixel and plane,
\* those of one call on the whole block; the tiled run raises exactly when
\* the whole call does.
C29_TilingIndependent ==
    (pc \in {"returned", "raised"} /\ Len(shape) = 3 /\ ~as_bip /\ ~double) =>
        \A xt \in 1..shape[3] : \A yt \in 1..shape[2] :
            SameTileByTile(stats, pc = "raised",
                           tiles_list(shape[3], shape[2], xt, yt))

\* a returned call on 2 bands of 1 line by 2 samples whose pixels differ in
\* their median, cut into two tiles of one pixel
C29_Witness ==
    /\ pc = "returned" /\ ~as_bip /\ ~double
    /\ shape = <<2, 1, 2>>
    /\ Len(tiles_list(shape[3], shape[2], 1, 1)) = 2
    /\ Plane(9, 1) = Num(0)
    /\ Plane(9, 2) = Num(1)
    /\ TileStats(tiles_list(shape[3], shape[2], 1, 1)[2]).stats[10][1] = Num(1)

\* C17: a call on an array whose number of dimensions is not 3 raises
\* TypeError and returns no result, before any statistic is computed and with
\* every element of the input as it was given.
C17_NotThreeDimensionalRaises ==
    (Len(shape) # 3 /\ pc # "ready") =>
        /\ pc = "raised"
        /\ err = "TypeError"
        /\ stats = <<>>
        /\ array = orig

\* a raised call on a 2-dimensional float32 array that holds the no_data
\* value the caller gave: the preprocessing would have replaced it in place
C17_Witness ==
    /\ pc = "raised"
    /\ err = "TypeError"
    /\ Len(shape) = 2
    /\ ~double
    /\ no_data = <<MaxVal>>
    /\ \E i \in 1..Len(orig) : orig[i] = Num(MaxVal)
    /\ array = orig


\* ------------------------------------------------------------------------
\* Properties of generate_tiles
\* ------------------------------------------------------------------------

\* tile t holds the pixel (row, col)
InTile(t, row, col) ==
    /\ t[1][1] <= row /\ row < t[1][2]
    /\ t[2][1] <= col /\ col < t[2][2]

\* C1: for inputs >= 1 the tiles are pairwise non-overlapping and their union
\* is exactly [0, lines) x [0, samples): every pixel of the raster lies in
\* exactly one tile, and no tile reaches outside the raster.
C1_TilesPartitionRaster ==
    (tpc = "done" /\ samples >= 1 /\ lines >= 1 /\ xtile >= 1 /\ ytile >= 1) =>
        /\ \A row \in 0..(lines - 1), col \in 0..(samples - 1) :
              Cardinality({k \in 1..Len(tiles) : InTile(tiles[k], row, col)}) = 1
        /\ \A k \in 1..Len(tiles) :
              /\ 0 <= tiles[k][1][1] /\ tiles[k][1][2] <= lines
              /\ 0 <= tiles[k][2][1] /\ tiles[k][2][2] <= samples

\* a finished tiling of several row and column bands whose last row band and
\* last column band are clipped to the raster
C1_Witness ==
    /\ tpc = "done"
    /\ Len(tiles) >= 4
    /\ lines % ytile # 0
    /\ samples % xtile # 0
    /\ tiles[Len(tiles)] = <<<<lines - (lines % ytile), lines>>,
                            <<samples - (samples % xtile), samples>>>>

\* the inputs of the call are all >= 1
InputsPositive == samples >= 1 /\ lines >= 1 /\ xtile >= 1 /\ ytile >= 1

\* ceil(a / b) for a >= 0 and b >= 1
CeilDiv(a, b) == IF a % b = 0 THEN a \div b ELSE (a \div b) + 1

\* C18: for inputs >= 1 the call yields exactly
\* ceil(lines/ytile) * ceil(samples/xtile) tiles, as a list or through the
\* drained generator; a tile size at least as large as the raster in both
\* directions yields the one tile that covers the raster.
C18_TileCount ==
    (tpc = "done" /\ InputsPositive) =>
        /\ Len(tiles) = CeilDiv(lines, ytile) * CeilDiv(samples, xtile)
        /\ (ytile >= lines /\ xtile >= samples) =>
              tiles = << <<<<0, lines>>, <<0, samples>>>> >>

\* a drained generator over a 3 x 4 raster with tiles of 2 x 3, neither size
\* dividing the raster: ceil(3/2) * ceil(4/3) = 4 tiles
C18_Witness ==
    /\ tpc = "done"
    /\ generator
    /\ lines = 3 /\ ytile = 2
    /\ samples = 4 /\ xtile = 3
    /\ Len(tiles) = 4

\* C19: the tiles yielded so far are in row-major order: the tile at index k
\* (0-based) has ystart = floor(k / C) * ytile and xstart = (k mod C) * xtile
\* with C = ceil(samples/xtile), so every tile of a row band comes before any
\* tile of the next, row bands in increasing ystart and the tiles of a band in
\* increasing xstart.
C19_RowMajorOrder ==
    (tpc \in {"iterating", "done"} /\ InputsPositive) =>
        /\ \A k \in 0..(Len(tiles) - 1) :
              /\ get_tile(tiles, k)[1][1] = (k \div CeilDiv(samples, xtile)) * ytile
              /\ get_tile(tiles, k)[2][1] = (k % CeilDiv(samples, xtile)) * xtile
        /\ \A j, k \in 0..(Len(tiles) - 1) :
              j < k =>
                \/ get_tile(tiles, j)[1][1] < get_tile(tiles, k)[1][1]
                \/ /\ get_tile(tiles, j)[1][1] = get_tile(tiles, k)[1][1]
                   /\ get_tile(tiles, j)[2][1] < get_tile(tiles, k)[2][1]

\* a list of the tiles of a 4 x 3 raster with tiles of 2 x 2, two row bands of
\* two tiles: the tile at index 2 is the first of the second row band
C19_Witness ==
    /\ tpc = "done"
    /\ ~generator
    /\ lines = 4 /\ ytile = 2
    /\ samples = 3 /\ xtile = 2
    /\ get_tile(tiles, 1) = <<<<0, 2>>, <<2, 3>>>>
    /\ get_tile(tiles, 2) = <<<<2, 4>>, <<0, 2>>>>

\* C20: for inputs >= 1 every tile yielded satisfies
\* 0 <= ystart < yend <= lines and 0 <= xstart < xend <= samples with
\* yend = min(ystart + ytile, lines) and xend = min(xstart + xtile, samples):
\* no tile is empty, and a tile smaller than the requested size is in the
\* last row band or the last column band.
C20_TileBounds ==
    (tpc \in {"iterating", "done"} /\ InputsPositive) =>
        \A k \in 1..Len(tiles) :
            LET ystart == tiles[k][1][1]
                yend == tiles[k][1][2]
                xstart == tiles[k][2][1]
                xend == tiles[k][2][2]
            IN  /\ 0 <= ystart /\ ystart < yend /\ yend <= lines
                /\ 0 <= xstart /\ xstart < xend /\ xend <= samples
                /\ yend = IF ystart + ytile < lines THEN ystart + ytile ELSE lines
                /\ xend = IF xstart + xtile < samples THEN xstart + xtile ELSE samples
                /\ yend - ystart < ytile => yend = lines
                /\ xend - xstart < xtile => xend = samples

\* a drained generator over a 3 x 4 raster with tiles of 2 x 3: the first
\* tile has the requested size, the last is the single pixel left over
C20_Witness ==
    /\ tpc = "done"
    /\ lines = 3 /\ ytile = 2
    /\ samples = 4 /\ xtile = 3
    /\ tiles[1] = <<<<0, 2>>, <<0, 3>>>>
    /\ tiles[Len(tiles)] = <<<<2, 3>>, <<3, 4>>>>

\* C21: for the same inputs the generator yields the tiles of the list in
\* the order of the list: what it has yielded so far is a prefix of the list,
\* and once drained it is the list.  The tiles are a function of the inputs
\* alone, so a second call with the same inputs yields them again.
C21_GeneratorMatchesList ==
    /\ tpc = "iterating" =>
          /\ Len(tiles) <= Len(tiles_list(samples, lines, xtile, ytile))
          /\ tiles = SubSeq(tiles_list(samples, lines, xtile, ytile), 1, Len(tiles))
    /\ tpc = "done" => tiles = tiles_list(samples, lines, xtile, ytile)

\* a drained generator that yielded two row bands of two tiles, the list's
\* tiles
C21_Witness ==
    /\ tpc = "done"
    /\ generator
    /\ lines = 4 /\ ytile = 3
    /\ samples = 4 /\ xtile = 2
    /\ tiles = tiles_list(4, 4, 2, 3)
    /\ Len(tiles) = 4

\* C22 (as claimed): a call with samples, lines, xtile or ytile <= 0 fails at
\* once with an error and yields no tile: it returns neither a list nor a
\* generator.
C22_InvalidInputsFailFast ==
    (tpc # "ready" /\ ~InputsPositive) =>
        /\ tpc = "raised"
        /\ tiles = <<>>

\* ------------------------------------------------------------------------
\* Properties of TiledOutput
\* ------------------------------------------------------------------------

\* the file has been read back after every tile of the tiling was written
RoundTripDone == img # NoArray /\ written = 1..Len(wtiles)

\* C4 (as claimed): the array read back after writing every tile and closing
\* has the shape of the source array and its value at every pixel of every
\* band, for 2D and for 3D sources.
C4_RoundTripSameShape ==
    RoundTripDone => (Shape(img) = Shape(src) /\ Planes(img) = Planes(src))

\* C4 (amended): the array read back after writing every tile and closing
\* has the source's value at every pixel of every band; its shape is the
\* source's shape, except that a 3D source of one band is read back as the
\* 2D array (lines, samples).
C4_RoundTrip ==
    RoundTripDone =>
        /\ Planes(img) = Planes(src)
        /\ Shape(img) = IF src.ndim = 3 /\ Len(src.data) = 1
                        THEN <<Shape(src)[2], Shape(src)[3]>>
                        ELSE Shape(src)

\* a two-band 3D source written in four or more tiles, the last of them
\* clipped to a single pixel, and read back equal to the source
C4_Witness ==
    /\ RoundTripDone
    /\ src.ndim = 3
    /\ Len(src.data) = 2
    /\ Len(wtiles) >= 4
    /\ Shape(Subset(src, wtiles[Len(wtiles)])) = <<2, 1, 1>>
    /\ Shape(Subset(src, wtiles[1])) = <<2, 2, 2>>
    /\ img = src

\* an error that reports the writer as closed
ReportsClosed(e) == e = "writer already closed"

\* C6 (as claimed): a write_tile call on a closed writer fails with an error
\* that reports the writer as already closed, and writes nothing.
C6_ReportsAlreadyClosed ==
    [][(closed /\ wcall' = "write_tile") =>
          (ReportsClosed(werr') /\ raster' = raster)]_vars

\* C6 (amended): a write_tile call on a closed writer always fails, with a
\* TypeError (the band lookup is None, or the array is not 2D or 3D) that
\* does not mention closure; it writes nothing to any band and the writer
\* stays closed.
C6_WriteAfterCloseFails ==
    [][(closed /\ wcall' = "write_tile") =>
          /\ werr' \in {NoneTypeError, DimsError}
          /\ raster' = raster
          /\ written' = written
          /\ closed']_vars

\* a writer closed after some tiles were written, on which a write_tile call
\* with a well-formed sub-array has failed
C6_Witness ==
    /\ closed
    /\ wcall = "write_tile"
    /\ werr = NoneTypeError
    /\ written # {}
    /\ raster # <<>>

\* the pixel at row r and column c (1-based) lies in a tile written so far
IsWritten(r, c) == \E k \in written : InTile(wtiles[k], r - 1, c - 1)

\* the pixels at which the planes f and g differ all lie in tile t
DiffersWithin(f, g, t) ==
    \A b \in 1..Len(f) : \A r \in 1..NRows(f[b]) : \A c \in 1..NCols(f[b]) :
        f[b][r][c] # g[b][r][c] => InTile(t, r - 1, c - 1)

\* C23: the content of the output raster depends on which tiles have been
\* written, not on the order of the write_tile calls: a pixel of a written
\* tile holds the source's value and every other pixel the value the file
\* was created with, so once every tile of the partition is written the
\* raster is the source whatever the order was; and one write_tile call
\* changes no pixel outside its tile's extent.
C23_AnyOrder ==
    /\ [](wpc = "open" =>
            \A b \in 1..Len(raster) :
                \A r \in 1..NRows(raster[b]) : \A c \in 1..NCols(raster[b]) :
                    raster[b][r][c] =
                        IF IsWritten(r, c) THEN Planes(src)[b][r][c] ELSE 0)
    /\ [][wcall' = "write_tile" =>
            \E k \in 1..Len(wtiles) : DiffersWithin(raster, raster', wtiles[k])]_vars

\* an open writer of a tiling of four tiles on which every tile but the first
\* has been written: the first pixel still holds the created value, the last
\* pixel the source's
C23_Witness ==
    /\ wpc = "open"
    /\ wcall = "write_tile"
    /\ Len(wtiles) = 4
    /\ written = {2, 3, 4}
    /\ raster[1][1][1] = 0
    /\ raster[1][NRows(raster[1])][NCols(raster[1])]
          = Planes(src)[1][NRows(raster[1])][NCols(raster[1])]

\* C24 (as claimed): a write_tile call whose array does not match the
\* raster's geometry (a stack whose depth is not the band count, a plane that
\* reaches past the raster at the tile's offset) fails at that call and
\* leaves every band of the raster as it was.
C24_MismatchFailsCleanly ==
    [][wcall' \in MismatchCalls => (werr' # "" /\ raster' = raster)]_vars

\* C26: closed is False right after the construction and stays as it is
\* across every write_tile call; it is True after every close() call and,
\* once True, never False again.
C26_ClosedFlag ==
    [][/\ (wcall' = "__init__" /\ wpc' = "open") => ~closed'
       /\ wcall' = "write_tile" => closed' = closed
       /\ wcall' = "close" => closed'
       /\ closed => closed']_vars

\* a writer on which every tile was written with closed still False, and
\* which the close() call that followed has marked closed
C26_Witness ==
    /\ wcall = "close"
    /\ werr = ""
    /\ closed
    /\ Len(wtiles) >= 2
    /\ written = 1..Len(wtiles)

\* ------------------------------------------------------------------------
\* Properties of z_axis_stats
\* ------------------------------------------------------------------------

\* the statistic held by each plane of bulk_stats, planes 0..13 in order, by
\* the name z_axis_stats has for it
PlaneNames ==
    <<"Sum", "Mean", "Valid Observations", "Variance", "Standard Deviation",
      "Skewness", "Kurtosis", "Max", "Min",
      "Median (non-interpolated value)", "Median Index (zero based index)",
      "1st Quantile (non-interpolated value)",
      "3rd Quantile (non-interpolated value)", "Geometric Mean">>

\* C5 (as claimed): the planes are in the order sum, mean, valid_count,
\* variance, stddev, skewness, kurtosis, max, min, median, median_index, q1,
\* q3, geometric_mean, and once z_axis_stats has run, output band k + 1
\* carries the name of the statistic of plane k.
C5_BandNamesFollowPlaneOrder ==
    zpc # "ready" =>
        /\ Len(band_desc) = output_band_count
        /\ \A k \in 0..(output_band_count - 1) : band_desc[k + 1] = PlaneNames[k + 1]

\* the bands stored under any key of the dictionary, counted with repeats
RECURSIVE Occurrences(_, _, _)
Occurrences(it, keys, b) ==
    IF keys = {} THEN 0
    ELSE LET k == CHOOSE x \in keys : TRUE
         IN  Cardinality({j \in 1..Len(it[k]) : it[k][j] = b})
             + Occurrences(it, keys \ {k}, b)

AllDated == \A b \in 1..y_bands : start_year[b] # NoDate

\* C27 (as claimed): after init_yearly_iterator on a dataset whose bands all
\* carry a start_datetime, every band index 1..bands is in the dictionary
\* exactly once, in the list stored under the year of its start_datetime.
C27_EveryBandUnderItsYear ==
    (ypc \in {"returned", "read"} /\ AllDated) =>
        \A b \in 1..y_bands :
            /\ start_year[b] \in DOMAIN yearly_iterator
            /\ \E j \in 1..Len(yearly_iterator[start_year[b]]) :
                   yearly_iterator[start_year[b]][j] = b
            /\ Occurrences(yearly_iterator, DOMAIN yearly_iterator, b) = 1

\* C25 (as claimed): z_axis_stats returns, having created the writer of 14
\* bands, written every tile of the tiling to it and closed it.
C25_EveryTileWrittenThenClosed ==
    zpc # "ready" =>
        /\ zpc = "returned"
        /\ Len(raster) = out_nb
        /\ written = 1..n_tiles
        /\ closed

=============================================================================
